---- MODULE Spec2Model ----
(***************************************************************************)
(* Model of synth-poc (src/src/main.rs): a brute-force synthesiser for a   *)
(* small register machine.  Program, derive, simulate, verify and          *)
(* as_output_set are operators; main is a state machine whose parallel     *)
(* map over the derived candidates is carried out by interleaved workers.  *)
(***************************************************************************)
EXTENDS Integers, Sequences, FiniteSets, TLC

(***************************************************************************)
(* Bounds of the model.                                                    *)
(***************************************************************************)
MaxInsize == 2
MaxTests == 2
MaxGen == 2
MaxFrontier == 10
MaxDeriveLen == 2
MaxSimulateLen == 1
MaxVerifyRegs == 2

(***************************************************************************)
(* i32 and Wrapping<i32>.  A register value is an integer of               *)
(* MinInt..MaxInt.  Wrapping arithmetic is carried out on the 32-bit       *)
(* pattern, held as two 16-bit limbs <<hi, lo>>.                           *)
(***************************************************************************)
MaxInt == 2147483647
MinInt == (-MaxInt) - 1
Limb == 65536
HalfLimb == 32768
Byte == 256

I32 == MinInt..MaxInt

ToLimbs(a) == << (a \div Limb) % Limb, a % Limb >>

FromLimbs(l) ==
  IF l[1] >= HalfLimb THEN (l[1] - Limb) * Limb + l[2]
                      ELSE l[1] * Limb + l[2]

\* the 32-bit product of two 16-bit limbs, as <<hi, lo>>
LimbProduct(x, y) ==
  LET t1 == (x \div Byte) * y
      t0 == (x % Byte) * y
      s  == (t1 % Byte) * Byte + t0
  IN  << ((t1 \div Byte) + (s \div Limb)) % Limb, s % Limb >>

\* addition that saturates at the ends of the range
SaturatingAdd(a, b) ==
  IF a >= 0 /\ b >= 0 /\ a > MaxInt - b THEN MaxInt
  ELSE IF a < 0 /\ b < 0 /\ a < MinInt - b THEN MinInt
  ELSE a + b

WrappingAdd(a, b) ==
  LET la == ToLimbs(a)
      lb == ToLimbs(b)
      lo == la[2] + lb[2]
      hi == la[1] + lb[1] + (lo \div Limb)
  IN  FromLimbs(<< hi % Limb, lo % Limb >>)

WrappingMul(a, b) ==
  LET la == ToLimbs(a)
      lb == ToLimbs(b)
      ll == LimbProduct(la[2], lb[2])
      hl == LimbProduct(la[1], lb[2])
      lh == LimbProduct(la[2], lb[1])
  IN  FromLimbs(<< (ll[1] + hl[2] + lh[2]) % Limb, ll[2] >>)

(***************************************************************************)
(* Vr(n) is the natural number n.  An instruction is a record; a program   *)
(* is the struct Program.                                                  *)
(***************************************************************************)
Instr(op, from, to) == [op |-> op, from |-> from, to |-> to]

Mov(from, to) == Instr("Mov", from, to)
Add(from, to) == Instr("Add", from, to)
Mul(from, to) == Instr("Mul", from, to)

make_vr(p) ==
  [p EXCEPT !.next_vr = p.next_vr + 1, !.vrs = Append(p.vrs, p.next_vr)]

make_input_vr(p) ==
  LET q == make_vr(p)
  IN  [q EXCEPT !.input_vrs = Append(q.input_vrs, p.next_vr)]

RECURSIVE make_inputs(_, _)
make_inputs(p, n) ==
  IF n = 0 THEN p ELSE make_inputs(make_input_vr(p), n - 1)

new(num_inputs) ==
  make_inputs([code |-> << >>, vrs |-> << >>, next_vr |-> 0,
               input_vrs |-> << >>], num_inputs)

len(p) == << Len(p.code), Len(p.vrs) >>

vr_set(p) == { p.vrs[i] : i \in 1..Len(p.vrs) }

\* add_instr that assigns the code where it should push onto it
add_instr_assigning(p, instr) == [p EXCEPT !.code = << instr >>]

add_instr(p, instr) == [p EXCEPT !.code = Append(p.code, instr)]

\* the growing move without its make_vr
alias_without_vr(p, vr) == add_instr(p, Mov(vr, p.next_vr))

\* the program a growing move yields: a fresh register, then the Mov into it
Alias(p, vr) == add_instr(make_vr(p), Mov(vr, p.next_vr))

\* derive with the Add loop a copy of the Mul loop
derive_mul_twice(p) ==
  LET Ix == 1..Len(p.vrs)
  IN  { Alias(p, p.vrs[i]) : i \in Ix }
        \cup { add_instr(p, Mul(p.vrs[i], p.vrs[j])) : i \in Ix, j \in Ix }

\* derive with the Add loop running over the next register as well
derive_add_beyond(p) ==
  LET Ix == 1..Len(p.vrs)
  IN  { Alias(p, p.vrs[i]) : i \in Ix }
        \cup { add_instr(p, Mul(p.vrs[i], p.vrs[j])) : i \in Ix, j \in Ix }
        \cup { add_instr(p, Add(p.vrs[i], p.vrs[j])) : i \in Ix, j \in Ix }
        \cup { add_instr(p, Add(p.vrs[i], p.next_vr)) : i \in Ix }

derive(p) ==
  LET Ix == 1..Len(p.vrs)
  IN  { Alias(p, p.vrs[i]) : i \in Ix }
        \cup { add_instr(p, Mul(p.vrs[i], p.vrs[j])) : i \in Ix, j \in Ix }
        \cup { add_instr(p, Add(p.vrs[i], p.vrs[j])) : i \in Ix, j \in Ix }

(***************************************************************************)
(* simulate.  A HashMap<Vr, i32> is a function on the set of its keys.  A  *)
(* run that panics (a failed assert, a register without a value) yields    *)
(* Panicked.                                                               *)
(***************************************************************************)
Panicked == [ok |-> FALSE]
Returned(v) == [ok |-> TRUE, val |-> v]

insert(map, k, v) ==
  [x \in (DOMAIN map) \cup {k} |-> IF x = k THEN v ELSE map[x]]

EmptyMap == [x \in {} |-> 0]

RECURSIVE insert_inputs(_, _, _, _)
insert_inputs(map, input_vrs, inputs, i) ==
  IF i > Len(input_vrs) THEN map
  ELSE insert_inputs(insert(map, input_vrs[i], inputs[i]), input_vrs,
                     inputs, i + 1)

\* exec with the operands of Mov taken the other way round
exec_mov_swapped(map, instr) ==
  IF instr.op = "Mov"
  THEN IF instr.to \in DOMAIN map
       THEN Returned(insert(map, instr.from, map[instr.to]))
       ELSE Panicked
  ELSE IF instr.from \in DOMAIN map /\ instr.to \in DOMAIN map
       THEN IF instr.op = "Mul"
            THEN Returned(insert(map, instr.to,
                                 WrappingMul(map[instr.from], map[instr.to])))
            ELSE Returned(insert(map, instr.to,
                                 WrappingAdd(map[instr.from], map[instr.to])))
       ELSE Panicked

\* one arm of the match: the map after the instruction, or Panicked
exec(map, instr) ==
  IF instr.op = "Mov"
  THEN IF instr.from \in DOMAIN map
       THEN Returned(insert(map, instr.to, map[instr.from]))
       ELSE Panicked
  ELSE IF instr.from \in DOMAIN map /\ instr.to \in DOMAIN map
       THEN IF instr.op = "Mul"
            THEN Returned(insert(map, instr.to,
                                 WrappingMul(map[instr.from], map[instr.to])))
            ELSE Returned(insert(map, instr.to,
                                 WrappingAdd(map[instr.from], map[instr.to])))
       ELSE Panicked

\* the loop over the code taken from its last instruction to its first
RECURSIVE run_reversed(_, _, _)
run_reversed(map, code, i) ==
  IF i > Len(code) THEN Returned(map)
  ELSE LET r == exec(map, code[Len(code) + 1 - i])
       IN  IF r.ok THEN run_reversed(r.val, code, i + 1) ELSE Panicked

\* the loop over the code
RECURSIVE run(_, _, _)
run(map, code, i) ==
  IF i > Len(code) THEN Returned(map)
  ELSE LET r == exec(map, code[i])
       IN  IF r.ok THEN run(r.val, code, i + 1) ELSE Panicked

simulate(p, inputs) ==
  IF Len(inputs) # Len(p.input_vrs) THEN Panicked
  ELSE run(insert_inputs(EmptyMap, p.input_vrs, inputs, 1), p.code, 1)

(***************************************************************************)
(* contained_in, verify, as_output_set.  A test is <<assignments, goal>>.  *)
(***************************************************************************)
\* contained_in with the comparison inverted
contained_in_inverted(assignments, goal) ==
  { vr \in DOMAIN assignments : assignments[vr] # goal }

contained_in(assignments, goal) ==
  { vr \in DOMAIN assignments : assignments[vr] = goal }

RECURSIVE good_vrs(_, _, _)
good_vrs(good, tests, i) ==
  IF i > Len(tests) THEN good
  ELSE good_vrs(good \cap contained_in(tests[i][1], tests[i][2]), tests,
                i + 1)

Invalid == [tag |-> "Invalid"]
Correct(vr) == [tag |-> "Correct", vr |-> vr]

\* verify with the loop left after its first test
verify_first_test(all_vrs, tests) ==
  LET good == good_vrs(all_vrs, SubSeq(tests, 1, 1), 1)
  IN  IF good = {} THEN {Invalid} ELSE { Correct(vr) : vr \in good }

\* verify with good_vrs overwritten by each test instead of intersected
verify_last_test(all_vrs, tests) ==
  LET good == good_vrs(all_vrs, SubSeq(tests, Len(tests), Len(tests)), 1)
  IN  IF good = {} THEN {Invalid} ELSE { Correct(vr) : vr \in good }

\* good_vrs.iter().nth(0): a HashSet iterates in an order that depends on
\* its hasher's random keys, so any element can come first.
verify(all_vrs, tests) ==
  LET good == good_vrs(all_vrs, tests, 1)
  IN  IF good = {} THEN {Invalid} ELSE { Correct(vr) : vr \in good }

\* the vector of one test with the range (0..n) ended one register early
ivec_without_last(m) ==
  LET n == Cardinality(DOMAIN m)
  IN  IF \A u \in 0..(n - 1) : u \in DOMAIN m
      THEN Returned([u \in 1..(n - 1) |-> m[u - 1]])
      ELSE Panicked

\* the vector of one test: None when a key below keys().len() is missing
ivec(m) ==
  LET n == Cardinality(DOMAIN m)
  IN  IF \A u \in 0..(n - 1) : u \in DOMAIN m
      THEN Returned([u \in 1..n |-> m[u - 1]])
      ELSE Panicked

as_output_set(full_output) ==
  IF \A t \in 1..Len(full_output) : ivec(full_output[t][1]).ok
  THEN Returned([t \in 1..Len(full_output) |-> ivec(full_output[t][1]).val])
  ELSE Panicked

(***************************************************************************)
(* The oracle.  testinputs is a Vec<(Vec<i32>, i32)>: test t is            *)
(* <<inputs, expected>>.  The input vectors are the first T rows of a      *)
(* fixed pool, cut to the arity; the expected outputs are arbitrary.       *)
(***************************************************************************)
NumWorkers == 2

InputPool == << <<2, -1, 1>>, <<1, 2, -1>>, <<-1, 1, 2>>, <<0, 0, 0>> >>

OutVals == {1, 2, 4}

PoolVal(t, i) ==
  LET row == InputPool[((t - 1) % Len(InputPool)) + 1]
  IN  row[((i - 1) % Len(row)) + 1]

TestVector(A, t) == [i \in 1..A |-> PoolVal(t, i)]

OraclesOf(A, T) ==
  { [t \in 1..T |-> << TestVector(A, t), outs[t] >>] :
      outs \in [1..T -> OutVals] }

Oracles ==
  UNION { {[insize |-> A, testinputs |-> o] : o \in OraclesOf(A, T)} :
            A \in 1..MaxInsize, T \in 1..MaxTests }

\* the sum oracle over two inputs
ScenarioA ==
  [insize |-> 2,
   testinputs |-> << << <<0, 0>>, 0 >>, << <<1, 1>>, 2 >>,
                     << <<1, -1>>, 0 >> >>]

\* the oracles of y = 2x+3 over one input, on up to MaxTests inputs
AffineInputs == {-1, 0, 3}

Affine(x) == 2 * x + 3

ScenarioC ==
  UNION { {[insize |-> 1,
            testinputs |-> [t \in 1..T |-> << << xs[t] >>, Affine(xs[t]) >>]] :
             xs \in [1..T -> AffineInputs]} : T \in 1..MaxTests }

\* the oracles over the single input 1, which mul r0 r0 leaves as it is
UnitInputOracles ==
  { [insize |-> 1, testinputs |-> << << << 1 >>, y >> >>] : y \in OutVals }

AllOracles == Oracles \cup {ScenarioA} \cup ScenarioC \cup UnitInputOracles

(***************************************************************************)
(* State of main, and of the harness that calls one function on its own.   *)
(***************************************************************************)
VARIABLES
  insize,        \* the arity of the oracle
  testinputs,    \* the oracle
  programs,      \* the frontier, a HashSet<Program>
  visited,       \* HashSet<Vec<Vec<i32>>>
  null_result,   \* what the "null program" line prints
  generation,
  oprogs,        \* the frontier the running generation expands
  queue,         \* queue[w]: the parents worker w has still to expand
  results,       \* the triples collected so far in this generation
  found,         \* the triple printed with "Found good program"
  pc,
  u_pc, u_arg, u_ret

vars == << insize, testinputs, programs, visited, null_result, generation,
           oprogs, queue, results, found, pc, u_pc, u_arg, u_ret >>

mainvars == << insize, testinputs, programs, visited, null_result,
               generation, oprogs, queue, results, found, pc >>

unitvars == << u_pc, u_arg, u_ret >>

None == [tag |-> "None"]

Workers == 1..NumWorkers

\* the full_output of a program: one (HashMap, expected) pair per test
outputs_of(p, tests) ==
  [t \in 1..Len(tests) |-> << simulate(p, tests[t][1]), tests[t][2] >>]

simulated(outputs) == \A t \in 1..Len(outputs) : outputs[t][1].ok

maps_of(outputs) ==
  [t \in 1..Len(outputs) |-> << outputs[t][1].val, outputs[t][2] >>]

Init ==
  /\ \E o \in AllOracles : insize = o.insize /\ testinputs = o.testinputs
  /\ programs = {}
  /\ visited = {}
  /\ null_result = None
  /\ generation = 0
  /\ oprogs = {}
  /\ queue = [w \in Workers |-> << >>]
  /\ results = {}
  /\ found = None
  /\ pc = "start"
  /\ u_pc = "idle" /\ u_arg = None /\ u_ret = None

\* main, up to the loop
Initialize ==
  /\ pc = "start"
  /\ LET p == new(insize)
         testresults == outputs_of(p, testinputs)
     IN  IF simulated(testresults)
            /\ as_output_set(maps_of(testresults)).ok
         THEN /\ programs' = {p}
              /\ visited' = {as_output_set(maps_of(testresults)).val}
              /\ null_result' \in verify(vr_set(p), maps_of(testresults))
              /\ pc' = "loop"
         ELSE /\ pc' = "panic"
              /\ UNCHANGED << programs, visited, null_result >>
  /\ generation' = 0
  /\ UNCHANGED << insize, testinputs, oprogs, queue, results, found >>
  /\ UNCHANGED unitvars

RECURSIVE SetToSeq(_)
SetToSeq(S) ==
  IF S = {} THEN << >>
  ELSE LET x == CHOOSE x \in S : TRUE
       IN  << x >> \o SetToSeq(S \ {x})

\* a split that loses the first element of every piece
Piece_without_first(s, w) ==
  SubSeq(s, ((w - 1) * Len(s)) \div NumWorkers + 2,
            (w * Len(s)) \div NumWorkers)

\* par_iter over the HashSet: the elements are laid out as a Vec, which is
\* split into one contiguous piece per worker.
Piece(s, w) ==
  SubSeq(s, ((w - 1) * Len(s)) \div NumWorkers + 1,
            (w * Len(s)) \div NumWorkers)

\* the head of the loop: the generation counter and the lazy iterators
LoopHead ==
  /\ pc = "loop"
  /\ generation < MaxGen
  /\ Cardinality(programs) <= MaxFrontier
  /\ generation' = generation + 1
  /\ oprogs' = programs
  /\ queue' = [w \in Workers |-> Piece(SetToSeq(programs), w)]
  /\ results' = {}
  /\ pc' = "map"
  /\ UNCHANGED << insize, testinputs, programs, visited, null_result, found >>
  /\ UNCHANGED unitvars

\* the closure of the map, for one candidate and its simulated outputs: the
\* possible triples
triples(p, outputs) ==
  { [p |-> p, out |-> as_output_set(maps_of(outputs)).val, vres |-> v] :
      v \in verify(vr_set(p), maps_of(outputs)) }

\* neither simulate nor as_output_set panics
runs(outputs) ==
  simulated(outputs) /\ as_output_set(maps_of(outputs)).ok

\* the filter with its test inverted
unvisited_inverted(rt) == rt.out \in visited

\* the filter
unvisited(rt) == rt.out \notin visited

\* every way of taking one triple of ts[c] for each candidate c of S
RECURSIVE Picks(_, _)
Picks(S, ts) ==
  IF S = {} THEN { {} }
  ELSE LET c == CHOOSE c \in S : TRUE
       IN  { rest \cup {rt} : rest \in Picks(S \ {c}, ts), rt \in ts[c] }

\* one worker takes its next parent through flat_map, map and filter
Worker(w) ==
  /\ pc = "map"
  /\ queue[w] # << >>
  /\ LET parent == Head(queue[w])
         cands == derive(parent)
         outs == [c \in cands |-> outputs_of(c, testinputs)]
     IN  IF \A c \in cands : runs(outs[c])
         THEN LET ts == [c \in cands |->
                          { rt \in triples(c, outs[c]) : unvisited(rt) }]
                  kept == { c \in cands : ts[c] # {} }
              IN  /\ \E rs \in Picks(kept, ts) : results' = results \cup rs
                  /\ pc' = "map"
         ELSE /\ pc' = "panic"
              /\ UNCHANGED results
  /\ queue' = [queue EXCEPT ![w] = Tail(queue[w])]
  /\ UNCHANGED << insize, testinputs, programs, visited, null_result,
                  generation, oprogs, found >>
  /\ UNCHANGED unitvars

Collected == \A w \in Workers : queue[w] = << >>

\* is_good with the arms of the match exchanged
is_good_exchanged(rt) == rt.vres = Invalid

is_good(rt) == rt.vres # Invalid

\* find_any returns Some: any of the good triples
Report ==
  /\ pc = "map"
  /\ Collected
  /\ \E rt \in results : is_good(rt) /\ found' = rt
  /\ pc' = "done"
  /\ UNCHANGED << insize, testinputs, programs, visited, null_result,
                  generation, oprogs, queue, results >>
  /\ UNCHANGED unitvars

\* the hand-over with the signatures of the kept results recorded as visited
NextGeneration_visiting ==
  /\ pc = "map"
  /\ Collected
  /\ \A rt \in results : ~is_good(rt)
  /\ programs' = { rt.p : rt \in results }
  /\ visited' = visited \cup { rt.out : rt \in results }
  /\ pc' = "loop"
  /\ UNCHANGED << insize, testinputs, null_result, generation,
                  oprogs, queue, results, found >>
  /\ UNCHANGED unitvars

\* the frontier replaced without looking at what find_any returned
NextGeneration_unguarded ==
  /\ pc = "map"
  /\ Collected
  /\ programs' = { rt.p : rt \in results }
  /\ pc' = "loop"
  /\ UNCHANGED << insize, testinputs, visited, null_result, generation,
                  oprogs, queue, results, found >>
  /\ UNCHANGED unitvars

\* find_any returns None: the results become the frontier
NextGeneration ==
  /\ pc = "map"
  /\ Collected
  /\ \A rt \in results : ~is_good(rt)
  /\ programs' = { rt.p : rt \in results }
  /\ pc' = "loop"
  /\ UNCHANGED << insize, testinputs, visited, null_result, generation,
                  oprogs, queue, results, found >>
  /\ UNCHANGED unitvars

Next ==
  \/ Initialize
  \/ LoopHead
  \/ \E w \in Workers : Worker(w)
  \/ Report
  \/ NextGeneration

Spec == Init /\ [][Next]_vars

(***************************************************************************)
(* Properties of the search.                                               *)
(***************************************************************************)
Tests == 1..Len(testinputs)

\* register k of program q holds the expected output in every test, each
\* test simulated from scratch
Reproduces(q, k) ==
  \A t \in Tests :
    LET r == simulate(q, testinputs[t][1])
    IN  r.ok /\ k \in DOMAIN r.val /\ r.val[k] = testinputs[t][2]

Registers(q) ==
  UNION { IF simulate(q, testinputs[t][1]).ok
          THEN DOMAIN simulate(q, testinputs[t][1]).val ELSE {} : t \in Tests }

Satisfies(q) == \E k \in Registers(q) : Reproduces(q, k)

\* every one-instruction extension with valid register indices, the Mov
\* onto an existing register included
Extensions(q) ==
  derive(q) \cup { add_instr(q, Mov(q.vrs[i], q.vrs[j])) :
                     i \in 1..Len(q.vrs), j \in 1..Len(q.vrs) }

RECURSIVE InstrSequences(_, _)
InstrSequences(A, n) ==
  IF n = 0 THEN { new(A) }
  ELSE UNION { Extensions(q) : q \in InstrSequences(A, n - 1) }

ShorterPrograms(A, n) == UNION { InstrSequences(A, m) : m \in 0..(n - 1) }

\* C1: a reported program, simulated from scratch on every test input,
\* leaves the expected output in the reported register.
SuccessSound ==
  pc = "done" =>
    /\ found.vres.tag = "Correct"
    /\ Reproduces(found.p, found.vres.vr)

SuccessSoundWitness ==
  /\ pc = "done"
  /\ Len(found.p.code) = 2
  /\ Len(testinputs) = 2
  /\ Cardinality({ k \in Registers(found.p) : Reproduces(found.p, k) }) = 1

\* C2: when a program is reported, no sequence of fewer instructions (the
\* empty one included) reproduces the oracle on some register.
ShortestProgram ==
  pc = "done" =>
    \A q \in ShorterPrograms(insize, Len(found.p.code)) : ~Satisfies(q)

\* C3: when the root program already satisfies the oracle, the search does
\* not leave generation 0: nothing is derived, simulated or collected.
DegenerateStopsAtGenerationZero ==
  (pc # "start" /\ Satisfies(new(insize))) =>
    /\ generation = 0
    /\ pc \notin {"map", "done"}
    /\ oprogs = {}
    /\ results = {}

\* the candidates simulated in the running generation and their signatures
Candidates == UNION { derive(p) : p \in oprogs }

Signature(p) == as_output_set(maps_of(outputs_of(p, testinputs))).val

\* C5: when a generation hands its frontier to programs, two distinct
\* candidates of equal signature have exactly one survivor, and every
\* signature of the generation has a representative.
DeduplicationSound ==
  (pc = "loop" /\ generation >= 1) =>
    /\ \A c1, c2 \in Candidates :
         (c1 # c2 /\ Signature(c1) = Signature(c2)) =>
           ((c1 \in programs) # (c2 \in programs))
    /\ \A c \in Candidates :
         \E q \in programs : Signature(q) = Signature(c)

\* the programs derive reaches in n steps from the root of A inputs
RECURSIVE Derived(_, _)
Derived(A, n) ==
  IF n = 0 THEN { new(A) }
  ELSE UNION { derive(q) : q \in Derived(A, n - 1) }

(***************************************************************************)
(* The end-to-end scenarios.                                               *)
(***************************************************************************)
IsScenarioA == insize = ScenarioA.insize /\ testinputs = ScenarioA.testinputs

\* the triple of a one-instruction program over two inputs
Found(instr, vr) ==
  LET p == add_instr(new(2), instr)
  IN  [p |-> p, out |-> Signature(p), vres |-> Correct(vr)]

\* C11, as claimed: on the sum oracle every report is add r0 r1 with the
\* result in register 1, made in generation 1.
ScenarioAReportsAddR0R1 ==
  (IsScenarioA /\ pc = "done") =>
    /\ generation = 1
    /\ found.p.code = << Add(0, 1) >>
    /\ found.vres = Correct(1)

\* C11, amended: on the sum oracle every run ends in generation 1 with the
\* report of add r0 r1 and register 1 or of add r1 r0 and register 0: no run
\* panics, none hands a frontier on to generation 2, the map of generation 1
\* ends with a match to report, and the report is one of the two.
ScenarioATerminates ==
  IsScenarioA =>
    /\ pc \in {"start", "loop", "map", "done"}
    /\ generation <= 1
    /\ (pc = "loop") => generation = 0
    /\ (pc = "map" /\ Collected) => \E rt \in results : is_good(rt)
    /\ (pc = "done") =>
         /\ generation = 1
         /\ found \in { Found(Add(0, 1), 1), Found(Add(1, 0), 0) }

ScenarioAWitness ==
  /\ IsScenarioA
  /\ pc = "done"
  /\ generation = 1
  /\ found.p.code = << Add(0, 1) >>
  /\ found.vres = Correct(1)

IsScenarioC == [insize |-> insize, testinputs |-> testinputs] \in ScenarioC

\* nothing is matched in the generations up to 2
Unmatched ==
  /\ pc # "panic"
  /\ null_result \in {None, Invalid}
  /\ (pc = "done") => generation > 2

\* C12, as claimed: on every oracle of y = 2x+3 over one input neither the
\* root nor a program of one or two instructions is reported.
ScenarioCUnmatched == IsScenarioC => Unmatched

HasZeroInput == \E t \in 1..Len(testinputs) : testinputs[t][1] = << 0 >>

\* C12, amended: on every oracle of y = 2x+3 over one input that has 0
\* among its inputs neither the root nor a program of one or two
\* instructions is reported.
ScenarioCUnmatchedAtZero == (IsScenarioC /\ HasZeroInput) => Unmatched

ScenarioCWitness ==
  /\ IsScenarioC
  /\ HasZeroInput
  /\ pc = "loop"
  /\ generation = 2
  /\ null_result = Invalid
  /\ programs # {}

(***************************************************************************)
(* The loop of main run by one thread: the frontier after g generations    *)
(* that found no match.                                                    *)
(***************************************************************************)
RECURSIVE Frontier(_)
Frontier(g) ==
  IF g = 0 THEN { new(insize) }
  ELSE { c \in UNION { derive(p) : p \in Frontier(g - 1) } :
           Signature(c) \notin visited }

Signatures(S) == { Signature(p) : p \in S }

\* C13: whenever a generation has handed its frontier on, the signatures the
\* frontier holds are those of the sequential loop: they depend on the
\* oracle and the generation only, not on the order of the workers.
FrontierDeterministic ==
  (pc = "loop") => Signatures(programs) = Signatures(Frontier(generation))

\* two workers have shared a generation whose candidates repeat signatures
FrontierDeterministicWitness ==
  /\ pc = "loop"
  /\ generation = 2
  /\ Cardinality(oprogs) > 1
  /\ Cardinality(Signatures(programs)) > 1
  /\ Cardinality(Signatures(programs)) < Cardinality(Candidates)

(***************************************************************************)
(* The end of the loop.                                                    *)
(***************************************************************************)
Matched == pc = "map" /\ Collected /\ \E rt \in results : is_good(rt)

\* C14: once the map of a generation is complete and a surviving candidate
\* has a result other than Invalid, the only step is the report of such a
\* candidate, which leaves the frontier and the generation as they are; and
\* after the report there is no step at all.
FirstMatchTerminates ==
  [][ /\ Matched =>
           /\ pc' = "done"
           /\ found' \in results
           /\ is_good(found')
           /\ programs' = programs
           /\ generation' = generation
      /\ pc # "done" ]_vars

\* a report in generation 2, generation 1 having had no match
FirstMatchTerminatesWitness ==
  /\ pc = "done"
  /\ generation = 2
  /\ is_good(found)
  /\ programs = oprogs
  /\ \A p \in programs : Len(p.code) = 1

(***************************************************************************)
(* Completeness of the search under the filter.                            *)
(***************************************************************************)
\* some program that derive reaches in n steps reproduces the oracle
Solved(n) == \E q \in Derived(insize, n) : Satisfies(q)

\* C15: if derive reaches a program of n >= 1 instructions that reproduces
\* the oracle, the search reports no later than generation n: the map of
\* generation n ends with a match to report, and no frontier is handed on
\* by a generation that a reproducing program of at most as many
\* instructions exists for.
PrunedSearchComplete ==
  /\ (pc = "map" /\ Collected /\ Solved(generation)) =>
       \E rt \in results : is_good(rt)
  /\ (pc = "loop" /\ generation >= 1) =>
       \A n \in 1..generation : ~Solved(n)
  /\ (pc = "done") => \A n \in 1..(generation - 1) : ~Solved(n)

\* a report in generation 2 although generation 1 discarded a candidate
PrunedSearchCompleteWitness ==
  /\ pc = "done"
  /\ generation = 2
  /\ Solved(2)
  /\ \E c \in Derived(insize, 1) : Signature(c) \in visited

(***************************************************************************)
(* The shape of the programs of a generation.  The counter is incremented  *)
(* at the head of the loop: the g-th iteration (g = 0, 1, ...) starts with *)
(* generation = g and derives with generation = g + 1.                     *)
(***************************************************************************)
\* C16: at the start of the g-th iteration every program of the frontier
\* has g instructions, and every candidate derived in that iteration, kept
\* or not, has g + 1.
UniformLength ==
  /\ (pc = "loop") => \A p \in programs : Len(p.code) = generation
  /\ (pc \in {"map", "done"}) =>
       /\ \A p \in oprogs : Len(p.code) = generation - 1
       /\ \A c \in Candidates : Len(c.code) = generation
       /\ \A rt \in results : Len(rt.p.code) = generation

UniformLengthWitness ==
  /\ pc = "map"
  /\ generation = 2
  /\ Cardinality(oprogs) > 1
  /\ Cardinality(results) > 1

\* from instruction i on, with R registers before it: every source and
\* every destination of Add and Mul is below the register count, every
\* destination of Mov is the register count
RECURSIVE ValidIndices(_, _, _)
ValidIndices(code, i, R) ==
  IF i > Len(code) THEN TRUE
  ELSE /\ code[i].from \in 0..(R - 1)
       /\ IF code[i].op = "Mov"
          THEN code[i].to = R /\ ValidIndices(code, i + 1, R + 1)
          ELSE code[i].to \in 0..(R - 1) /\ ValidIndices(code, i + 1, R)

\* the programs of the search: the frontier and what is derived from it
Reached == programs \cup oprogs \cup Candidates

\* C17: every program the search derives has valid register indices, and
\* neither simulate (a register without a value, the assertion on the
\* number of inputs) nor as_output_set panics on any of them: the search
\* never ends in a panic.
RegisterIndexValid ==
  /\ pc # "panic"
  /\ \A p \in Reached :
       /\ p.input_vrs = [i \in 1..insize |-> i - 1]
       /\ ValidIndices(p.code, 1, insize)

\* a kept program with two growing moves and one that adds or multiplies a
\* moved register
RegisterIndexValidWitness ==
  /\ pc = "map"
  /\ generation = 2
  /\ \E rt \in results : Len(rt.p.vrs) = insize + 2
  /\ \E rt \in results :
       /\ rt.p.code[1].op = "Mov"
       /\ rt.p.code[2].op # "Mov"
       /\ rt.p.code[2].to = insize

\* the map of a generation is about to start: no worker has taken a parent
MapStarts ==
  /\ pc = "map"
  /\ queue = [w \in Workers |-> Piece(SetToSeq(oprogs), w)]

\* C18: for every child derive builds from a program of the frontier and
\* every test, simulating the child from its inputs yields the register
\* state that its last instruction alone yields from the register state of
\* the simulated parent.
IncrementalSimulation ==
  MapStarts =>
    \A parent \in oprogs : \A c \in derive(parent) : \A t \in Tests :
      LET before == simulate(parent, testinputs[t][1])
      IN  /\ before.ok
          /\ simulate(c, testinputs[t][1])
               = exec(before.val, c.code[Len(c.code)])

\* children of parents that have an instruction of their own, one of which
\* changes a register the parent's instruction wrote
IncrementalSimulationWitness ==
  /\ MapStarts
  /\ generation = 2
  /\ \E parent \in oprogs : \E c \in derive(parent) : \E t \in Tests :
       LET before == simulate(parent, testinputs[t][1]).val
           root == simulate(new(insize), testinputs[t][1]).val
           k == c.code[2].to
       IN  /\ c.code[1].op # "Mov"
           /\ c.code[2].op # "Mov"
           /\ c.code[1].to = k
           /\ before[k] # root[k]
           /\ simulate(c, testinputs[t][1]).val[k] # before[k]

\* the registers of a program
Count(p) == Len(p.vrs)

\* C19: a child has its parent's registers, and one more exactly when its
\* instruction is the growing Mov; a program of g instructions over A
\* inputs has between A and A + g registers; and the output vector of every
\* test has one entry per register of the program.
RegisterCountMonotone ==
  /\ (pc \in {"map", "done"}) =>
       \A parent \in oprogs : \A c \in derive(parent) :
         Count(c) = Count(parent) +
                      (IF c.code[Len(c.code)].op = "Mov" THEN 1 ELSE 0)
  /\ \A p \in Reached :
       Count(p) \in insize..(insize + Len(p.code))
  /\ \A rt \in results : \A t \in Tests : Len(rt.out[t]) = Count(rt.p)
  /\ \A out \in visited : \A t \in Tests : Len(out[t]) = insize

\* results of two instructions with A, A + 1 and A + 2 registers
RegisterCountMonotoneWitness ==
  /\ pc = "map"
  /\ generation = 2
  /\ \A n \in 0..2 : \E rt \in results : Count(rt.p) = insize + n

(***************************************************************************)
(* The visited set.                                                        *)
(***************************************************************************)
RootSignature == Signature(new(insize))

\* C20: from the loop on, visited holds the signature of the root and
\* nothing else; no program of a frontier of generation 1 or later has that
\* signature; and when the map of a generation is complete, the candidates
\* kept are exactly those whose signature is not the root's.
VisitedIsRootOnly ==
  /\ (pc = "start") => visited = {}
  /\ (pc # "start") => visited = { RootSignature }
  /\ (pc = "loop" /\ generation >= 1) =>
       \A p \in programs : Signature(p) # RootSignature
  /\ (pc = "map" /\ Collected) =>
       { rt.p : rt \in results }
         = { c \in Candidates : Signature(c) # RootSignature }

\* a generation handed on after the filter discarded one of its candidates
VisitedIsRootOnlyWitness ==
  /\ pc = "loop"
  /\ generation >= 1
  /\ programs # {}
  /\ \E c \in Candidates : Signature(c) = RootSignature

(***************************************************************************)
(* One function called on its own.  Each specification draws the           *)
(* arguments of one call in its initial state and has one action, the      *)
(* call.  The variables of main stay as they are before main starts.       *)
(***************************************************************************)
MainIdle ==
  /\ insize = 0
  /\ testinputs = << >>
  /\ programs = {}
  /\ visited = {}
  /\ null_result = None
  /\ generation = 0
  /\ oprogs = {}
  /\ queue = [w \in Workers |-> << >>]
  /\ results = {}
  /\ found = None
  /\ pc = "unit"

\* the derived programs of at most n instructions over 1..MaxInsize inputs
UnitPrograms(n) ==
  UNION { Derived(A, m) : A \in 1..MaxInsize, m \in 0..n }

\* register values on both sides of the overflow boundaries
UnitVals == {MinInt, -1, 2, 46341, MaxInt}

DeriveInit ==
  /\ MainIdle
  /\ u_pc = "call"
  /\ \E p \in UnitPrograms(MaxDeriveLen) : u_arg = [p |-> p]
  /\ u_ret = None

DeriveCall ==
  /\ u_pc = "call"
  /\ u_ret' = derive(u_arg.p)
  /\ u_pc' = "ret"
  /\ UNCHANGED u_arg
  /\ UNCHANGED mainvars

DeriveSpec == DeriveInit /\ [][DeriveCall]_vars

SimulateInit ==
  /\ MainIdle
  /\ u_pc = "call"
  /\ \E parent \in UnitPrograms(MaxSimulateLen - 1) :
       \E p \in Extensions(parent) :
         \E inputs \in [1..Len(p.input_vrs) -> UnitVals] :
           u_arg = [parent |-> parent, p |-> p, inputs |-> inputs]
  /\ u_ret = None

SimulateCall ==
  /\ u_pc = "call"
  /\ u_ret' = simulate(u_arg.p, u_arg.inputs)
  /\ u_pc' = "ret"
  /\ UNCHANGED u_arg
  /\ UNCHANGED mainvars

SimulateSpec == SimulateInit /\ [][SimulateCall]_vars

VerifyVals == {0, 1}

VerifyRegs == 0..(MaxVerifyRegs - 1)

Assignments == UNION { [D -> VerifyVals] : D \in SUBSET VerifyRegs }

VerifyTests ==
  UNION { [1..T -> Assignments \X VerifyVals] : T \in 0..MaxTests }

VerifyInit ==
  /\ MainIdle
  /\ u_pc = "call"
  /\ \E all_vrs \in SUBSET VerifyRegs, tests \in VerifyTests :
       u_arg = [all_vrs |-> all_vrs, tests |-> tests]
  /\ u_ret = None

VerifyCall ==
  /\ u_pc = "call"
  /\ u_ret' \in verify(u_arg.all_vrs, u_arg.tests)
  /\ u_pc' = "ret"
  /\ UNCHANGED u_arg
  /\ UNCHANGED mainvars

VerifySpec == VerifyInit /\ [][VerifyCall]_vars

(***************************************************************************)
(* Properties of derive.                                                   *)
(***************************************************************************)
LastInstr(p) == p.code[Len(p.code)]

Pairs(R) == (0..(R - 1)) \X (0..(R - 1))

GrowingMoves(R) == { [op |-> "Mov", from |-> i, to |-> R] : i \in 0..(R - 1) }

OnPairs(op, R) ==
  { [op |-> op, from |-> ij[1], to |-> ij[2]] : ij \in Pairs(R) }

\* every child is the parent followed by one instruction
ExtendsParent(parent, children) ==
  \A c \in children :
    /\ Len(c.code) = Len(parent.code) + 1
    /\ SubSeq(c.code, 1, Len(parent.code)) = parent.code
    /\ c.input_vrs = parent.input_vrs

\* C4, as claimed: the children of a parent with R registers are the R
\* growing moves and Mov, Add and Mul on every ordered pair, R + 3*R*R in all.
DeriveAllThreeKinds ==
  u_pc = "ret" =>
    LET R == Len(u_arg.p.vrs)
    IN  /\ ExtendsParent(u_arg.p, u_ret)
        /\ { LastInstr(c) : c \in u_ret }
             = GrowingMoves(R) \cup OnPairs("Mov", R) \cup OnPairs("Add", R)
                 \cup OnPairs("Mul", R)
        /\ Cardinality(u_ret) = R + 3 * R * R

\* C4, amended: the children are the R growing moves and Add and Mul on
\* every ordered pair, R + 2*R*R in all; a child of a growing move has R+1
\* registers, every other child R.
DeriveExhaustive ==
  u_pc = "ret" =>
    LET R == Len(u_arg.p.vrs)
    IN  /\ ExtendsParent(u_arg.p, u_ret)
        /\ { LastInstr(c) : c \in u_ret }
             = GrowingMoves(R) \cup OnPairs("Add", R) \cup OnPairs("Mul", R)
        /\ Cardinality(u_ret) = R + 2 * R * R
        /\ \A c \in u_ret :
             vr_set(c) = IF LastInstr(c).op = "Mov" THEN 0..R ELSE 0..(R - 1)

DeriveExhaustiveWitness ==
  /\ u_pc = "ret"
  /\ Len(u_arg.p.vrs) = 3
  /\ Len(u_arg.p.code) = 2
  /\ Cardinality(u_ret) = 21

(***************************************************************************)
(* Properties of verify.                                                   *)
(***************************************************************************)
\* the registers of all_vrs that hold the expected value in every test
Matching(all_vrs, tests) ==
  { k \in all_vrs :
      \A t \in 1..Len(tests) :
        k \in DOMAIN tests[t][1] /\ tests[t][1][k] = tests[t][2] }

\* C6: verify answers Correct(k) only for a register k that matches every
\* test, and Invalid exactly when no register matches every test.
VerifierCorrect ==
  u_pc = "ret" =>
    LET M == Matching(u_arg.all_vrs, u_arg.tests)
    IN  /\ u_ret.tag \in {"Correct", "Invalid"}
        /\ u_ret.tag = "Correct" => u_ret.vr \in M
        /\ u_ret = Invalid <=> M = {}

VerifierCorrectWitness ==
  /\ u_pc = "ret"
  /\ Len(u_arg.tests) = 2
  /\ u_arg.all_vrs = VerifyRegs
  /\ u_ret.tag = "Correct"
  /\ Cardinality(Matching(u_arg.all_vrs, u_arg.tests)) = 1

\* C7: when several registers match every test, verify answers the lowest.
VerifierLowestIndex ==
  (u_pc = "ret" /\ u_ret.tag = "Correct") =>
    \A k \in Matching(u_arg.all_vrs, u_arg.tests) : u_ret.vr <= k

(***************************************************************************)
(* Properties of simulate.  The exact sum and product of two words,        *)
(* reduced modulo 2^32 into MinInt..MaxInt, are computed here from the     *)
(* integers themselves: the sum by cases on the side it leaves the range,  *)
(* the product from a * b = 256 * (a * (b \div 256)) + (b % 256) * a.      *)
(***************************************************************************)
SumMod(a, b) ==
  IF a >= 0 /\ b >= 0
  THEN IF a <= MaxInt - b THEN a + b
       ELSE (a + MinInt) + (b + MinInt)
  ELSE IF a < 0 /\ b < 0
       THEN IF a >= MinInt - b THEN a + b
            ELSE ((a + 1) + MaxInt) + ((b + 1) + MaxInt)
       ELSE a + b

NegMod(a) == IF a = MinInt THEN MinInt ELSE -a

\* r * a for a small multiplier r >= 0, by doubling
RECURSIVE SmallProductMod(_, _)
SmallProductMod(a, r) ==
  IF r = 0 THEN 0
  ELSE LET h == SmallProductMod(a, r \div 2)
           d == SumMod(h, h)
       IN  IF r % 2 = 1 THEN SumMod(d, a) ELSE d

\* x * 2^n
RECURSIVE Doubled(_, _)
Doubled(x, n) == IF n = 0 THEN x ELSE Doubled(SumMod(x, x), n - 1)

RECURSIVE ProductMod(_, _)
ProductMod(a, b) ==
  IF b = 0 THEN 0
  ELSE IF b = -1 THEN NegMod(a)
  ELSE SumMod(Doubled(ProductMod(a, b \div 256), 8),
              SmallProductMod(a, b % 256))

\* the register state the last instruction of the call starts from
Prior == simulate(u_arg.parent, u_arg.inputs).val

Last == LastInstr(u_arg.p)

ParentRegs == Len(u_arg.parent.vrs)

\* C8: Add and Mul store in dst the exact sum and product of the two
\* registers reduced modulo 2^32 in two's complement, and the simulation
\* goes on whatever the operands.
WraparoundLaw ==
  (u_pc = "ret" /\ Last.op \in {"Add", "Mul"}) =>
    /\ u_ret.ok
    /\ u_ret.val[Last.to] \in I32
    /\ u_ret.val[Last.to]
         = IF Last.op = "Add"
           THEN SumMod(Prior[Last.from], Prior[Last.to])
           ELSE ProductMod(Prior[Last.from], Prior[Last.to])

WraparoundWitness ==
  /\ u_pc = "ret"
  /\ Last.op = "Mul"
  /\ Prior[Last.from] = 46341
  /\ Prior[Last.to] = 46341
  /\ u_ret.ok
  /\ u_ret.val[Last.to] < 0

\* C9: the growing move Mov(i, R) on a program of R registers leaves R+1
\* registers, register R holding the value register i had, registers below
\* R holding what they held; the program then counts R+1 registers.
GrowingMove ==
  (u_pc = "ret" /\ Last.op = "Mov" /\ Last.to = ParentRegs) =>
    /\ u_ret.ok
    /\ DOMAIN Prior = 0..(ParentRegs - 1)
    /\ DOMAIN u_ret.val = 0..ParentRegs
    /\ u_ret.val[ParentRegs] = Prior[Last.from]
    /\ \A r \in 0..(ParentRegs - 1) : u_ret.val[r] = Prior[r]
    /\ Len(u_arg.p.vrs) = ParentRegs + 1
    /\ vr_set(u_arg.p) = 0..ParentRegs

GrowingMoveWitness ==
  /\ u_pc = "ret"
  /\ Last.op = "Mov"
  /\ Last.to = ParentRegs
  /\ ParentRegs = 2
  /\ Last.from = 1
  /\ u_ret.ok
  /\ u_ret.val[2] = Prior[1]
  /\ u_ret.val[2] # u_ret.val[0]

\* C10: Mov(i, j) with j < R on a state of R registers overwrites register
\* j with the value of register i, leaves every other register as it was
\* and leaves R registers.
InPlaceMove ==
  (u_pc = "ret" /\ Last.op = "Mov" /\ Last.to < ParentRegs) =>
    /\ u_ret.ok
    /\ DOMAIN Prior = 0..(ParentRegs - 1)
    /\ DOMAIN u_ret.val = DOMAIN Prior
    /\ u_ret.val[Last.to] = Prior[Last.from]
    /\ \A r \in DOMAIN Prior : r # Last.to => u_ret.val[r] = Prior[r]
    /\ Len(u_arg.p.vrs) = ParentRegs

InPlaceMoveWitness ==
  /\ u_pc = "ret"
  /\ Last.op = "Mov"
  /\ Last.to < ParentRegs
  /\ Last.from # Last.to
  /\ Prior[Last.from] # Prior[Last.to]
  /\ u_ret.ok
  /\ u_ret.val[Last.to] = Prior[Last.from]

====
